---- MODULE Spec2Model ----
(***************************************************************************)
(* The committee registry (Node) and the per-committee service of          *)
(* consensus/tbft/node.go: the agent's operations PutCommittee, PutNodes,  *)
(* Notify, UpdateCommittee, SetCommitteeStop and GetCommitteeStatus, the   *)
(* connection driver goroutine that service.start launches, and the        *)
(* goroutines that signal it through updateChan.                           *)
(***************************************************************************)
EXTENDS Integers, Sequences, FiniteSets, TLC

\* ------------------------------------------------------------------ bounds
\* Agent operations invoked in one run.
MaxOps == 4
\* Service objects allocated in one run (successful PutCommittee calls).
MaxObj == 2

\* ------------------------------------------------------- program constants
Start == 0
Stop == 1
Switch == 2
\* make(chan bool, 2)
ChanCap == 2

\* ------------------------------------------------------------ input domains
\* Agent goroutines calling into the Node.
Threads == {"t1", "t2"}
\* Committee identifiers the agent uses; NilId is a nil *big.Int.
CIDs == {7, 8}
\* A *big.Int argument: nil, or a committee identifier.
NilInt == [nil |-> TRUE, v |-> 0]
BigInts == {NilInt} \cup {[nil |-> FALSE, v |-> c] : c \in CIDs}
Uint64(big) == big.v
\* Public keys: the local node's, two peers', and bytes that are no key.
SelfPk == "pkSelf"
BadPk == "pkBad"
PKs == {"pkSelf", "pkA", "pkB"}
\* Member lists of the committee descriptors the agent sends.
MemberLists ==
    { <<>>, <<"pkSelf">>, <<"pkSelf", "pkA", "pkB">>, <<"pkA", "pkB">> }
\* Endpoints announced by PutNodes: IP, Port, Port2.
Endpoints ==
    { [IP |-> "1.2.3.4", Port |-> 30303, Port2 |-> 30304],
      [IP |-> "5.6.7.8", Port |-> 40404, Port2 |-> 40405] }
CommitteeNodes ==
    { [Publickey |-> pk, IP |-> e.IP, Port |-> e.Port, Port2 |-> e.Port2] :
        pk \in PKs, e \in Endpoints }
    \cup { [Publickey |-> BadPk, IP |-> "1.2.3.4", Port |-> 30303, Port2 |-> 30304] }
\* The batches of one PutNodes call: one candidate, or one at the first
\* endpoint followed by one with a well-formed key at the second endpoint.
Batches ==
    { <<c>> : c \in CommitteeNodes }
    \cup { <<c, d>> : c \in {x \in CommitteeNodes : x.IP = "1.2.3.4"},
                      d \in {x \in CommitteeNodes : x.Publickey \in PKs /\ x.IP = "5.6.7.8"} }
\* The collaborator whose OnStart fails in a start, if one does.
StartFailures == {"none", "eventBus", "switch"}
\* End heights given to SetCommitteeStop.
EndHeights == {100}

\* Service objects, and the nil *service.
Objs == 1..MaxObj
NoObj == 0
Free == "free"

\* ------------------------------------------------- identities and addresses
\* crypto.UnmarshalPubkey: fails on bytes that are no public key.
UnmarshalPubkey(pk) == [err |-> pk \notin PKs, pub |-> pk]

\* crypto.PubkeyToAddress / PubKeyTrue.Address: the address bytes of a key
\* (one byte here instead of twenty).
PubkeyToAddress(pk) ==
    CASE pk = "pkSelf" -> <<171>>
      [] pk = "pkA" -> <<18>>
      [] pk = "pkB" -> <<205>>

HexDigits == <<"0", "1", "2", "3", "4", "5", "6", "7", "8", "9",
               "a", "b", "c", "d", "e", "f">>

\* hex.EncodeToString: two digits per byte, high nibble first.
RECURSIVE EncodeToString(_)
EncodeToString(bytes) ==
    IF bytes = <<>> THEN <<>>
    ELSE <<HexDigits[(Head(bytes) \div 16) + 1], HexDigits[(Head(bytes) % 16) + 1]>>
         \o EncodeToString(Tail(bytes))

HexValue(ch) == CHOOSE n \in 0..15 : HexDigits[n + 1] = ch
IsHexDigit(ch) == \E n \in 0..15 : HexDigits[n + 1] = ch

\* hex.DecodeString: an error on an odd length or a character that is no digit.
RECURSIVE DecodeBytes(_)
DecodeBytes(str) ==
    IF str = <<>> THEN <<>>
    ELSE <<HexValue(str[1]) * 16 + HexValue(str[2])>> \o DecodeBytes(SubSeq(str, 3, Len(str)))

DecodeString(str) ==
    IF Len(str) % 2 = 0 /\ \A i \in DOMAIN str : IsHexDigit(str[i])
    THEN [err |-> FALSE, bytes |-> DecodeBytes(str)]
    ELSE [err |-> TRUE, bytes |-> <<>>]

\* pkToP2pID: the peer identity of a public key.
pkToP2pID(pk) ==
    IF UnmarshalPubkey(pk).err THEN <<>> ELSE EncodeToString(PubkeyToAddress(pk))

\* p2p.NewNetAddressString(p2p.IDAddressString(id, "ip:port")).
NewNetAddress(id, ip, port) == [ID |-> id, IP |-> ip, Port |-> port]
NoAddress == [ID |-> <<>>, IP |-> "", Port |-> 0]

\* -------------------------------------------------------------- validators
\* MakeValidators: one validator of voting power 1 per member, in order.
MakeValidators(members) ==
    [i \in DOMAIN members |-> [Address |-> PubkeyToAddress(members[i]), VotingPower |-> 1]]

\* ValidatorSet.HasAddress.
HasAddress(vals, address) == \E i \in DOMAIN vals : vals[i].Address = address

\* ------------------------------------------------------------- node table
\* A nil *nodeInfo: the placeholder of a member whose endpoint is unknown.
NilNode ==
    [nil |-> TRUE, ID |-> <<>>, Adrress |-> NoAddress, IP |-> "", Port |-> 0,
     Enable |-> FALSE]

\* makeCommitteeMembers: nil for every member of the descriptor; a nil map
\* when there are no members.
makeCommitteeMembers(members) ==
    IF Len(members) <= 0
    THEN [nil |-> TRUE, tab |-> <<>>]
    ELSE [nil |-> FALSE,
          tab |-> [id \in {EncodeToString(PubkeyToAddress(members[i])) : i \in DOMAIN members}
                     |-> NilNode]]

\* ------------------------------------------------------------ BaseService
\* help.BaseService, which the switch and the event bus embed: Start fails
\* once started or once stopped (and when OnStart fails), Stop marks the
\* service stopped, IsRunning is started and not stopped.
NewBaseService == [started |-> FALSE, stopped |-> FALSE]
IsRunning(bs) == bs.started /\ ~bs.stopped
BaseStart(bs, fail) ==
    IF bs.started \/ bs.stopped \/ fail
    THEN [err |-> TRUE, bs |-> bs]
    ELSE [err |-> FALSE, bs |-> [bs EXCEPT !.started = TRUE]]
BaseStop(bs) == [bs EXCEPT !.stopped = TRUE]

\* ---------------------------------------------------------------- service
NoDriver == [pc |-> "none", todo |-> {}, cur |-> <<>>]

\* newNodeService and the fields PutCommittee sets before it registers the
\* service.  sa.Priv stays nil until start binds the signing key.
newNodeService(cid, vals) ==
    [ alloc      |-> TRUE,
      cid        |-> cid,
      sw         |-> NewBaseService,
      eventBus   |-> NewBaseService,
      healthMgr  |-> FALSE,
      nodeTable  |-> <<>>,
      lock       |-> Free,
      updateChan |-> <<>>,
      saVals     |-> vals,
      saPriv     |-> FALSE,
      EndHeight  |-> 0,
      csVals     |-> vals,
      senders    |-> 0,
      drv        |-> NoDriver,
      launched   |-> 0,
      dialed     |-> {} ]

\* An object that no PutCommittee has allocated yet.
NoService == [newNodeService(0, <<>>) EXCEPT !.alloc = FALSE]

\* service.setNodes.
setNodes(s, nodes) == [s EXCEPT !.nodeTable = nodes]

\* start that does not look at the errors of eventBus.Start and sw.Start and
\* always goes on to launch the driver.
start_ignoreErrors(s, fail) ==
    LET eb == BaseStart(s.eventBus, fail = "eventBus")
        sw == BaseStart(s.sw, fail = "switch")
    IN  [err |-> "nil",
         s |-> [s EXCEPT !.eventBus = eb.bs, !.saPriv = TRUE, !.sw = sw.bs,
                         !.drv = [pc |-> "recv", todo |-> {}, cur |-> <<>>],
                         !.launched = @ + 1]]

\* service.start: the event bus, the signing key, the switch, the driver.
\* fail names the collaborator whose OnStart fails, if one does.
start(s, fail) ==
    LET eb == BaseStart(s.eventBus, fail = "eventBus")
        s1 == [s EXCEPT !.eventBus = eb.bs]
        s2 == [s1 EXCEPT !.saPriv = TRUE]
        sw == BaseStart(s2.sw, fail = "switch")
        s3 == [s2 EXCEPT !.sw = sw.bs]
    IN  IF eb.err THEN [err |-> "eventBus", s |-> s1]
        ELSE IF sw.err THEN [err |-> "switch", s |-> s3]
        ELSE [err |-> "nil",
              s |-> [s3 EXCEPT !.drv = [pc |-> "recv", todo |-> {}, cur |-> <<>>],
                               !.launched = @ + 1]]

\* stop that forgets sw.Stop() after its send.
stopRest_noSwitch(s) == [s EXCEPT !.healthMgr = FALSE, !.eventBus = BaseStop(@)]

\* service.stop after its send: the health manager, the event bus, the switch.
stopRest(s) ==
    [s EXCEPT !.healthMgr = FALSE, !.eventBus = BaseStop(@), !.sw = BaseStop(@)]

\* service.stop when the switch is not running: only sw.Stop().
stopIdle(s) == [s EXCEPT !.sw = BaseStop(@)]

\* The port putNodes takes from a candidate: Port for an even committee id,
\* Port2 for an odd one.
nodePort(cid, node) == IF cid % 2 = 0 THEN node.Port ELSE node.Port2

\* putNode without the validator check: any well-formed key is accepted.
putNode_anyKey(tab, vals, cid, node) ==
    LET pub == UnmarshalPubkey(node.Publickey)
        address == PubkeyToAddress(pub.pub)
        port == nodePort(cid, node)
        id == EncodeToString(address)
        skip == [tab |-> tab, update |-> FALSE, rejected |-> FALSE, known |-> FALSE]
    IN  IF pub.err THEN skip
        ELSE IF id \in DOMAIN tab /\ tab[id].nil
        THEN [skip EXCEPT !.tab = [tab EXCEPT ![id] =
                                     [nil |-> FALSE, ID |-> id,
                                      Adrress |-> NewNetAddress(id, node.IP, port),
                                      IP |-> node.IP, Port |-> port, Enable |-> FALSE]],
                          !.update = TRUE]
        ELSE [skip EXCEPT !.known = (id \in DOMAIN tab)]

\* putNode without the test that the entry is still nil: an announced
\* endpoint replaces a resolved entry.
putNode_overwrite(tab, vals, cid, node) ==
    LET pub == UnmarshalPubkey(node.Publickey)
        address == PubkeyToAddress(pub.pub)
        port == nodePort(cid, node)
        id == EncodeToString(address)
        skip == [tab |-> tab, update |-> FALSE, rejected |-> FALSE, known |-> FALSE]
    IN  IF pub.err THEN skip
        ELSE IF ~HasAddress(vals, address) THEN [skip EXCEPT !.rejected = TRUE]
        ELSE IF id \in DOMAIN tab
        THEN [skip EXCEPT !.tab = [tab EXCEPT ![id] =
                                     [nil |-> FALSE, ID |-> id,
                                      Adrress |-> NewNetAddress(id, node.IP, port),
                                      IP |-> node.IP, Port |-> port, Enable |-> FALSE]],
                          !.update = TRUE,
                          !.known = ~tab[id].nil]
        ELSE skip

\* putNode that tests only v == nil and not ok: a validator without an
\* entry reads as nil too and gets one.
putNode_noOk(tab, vals, cid, node) ==
    LET pub == UnmarshalPubkey(node.Publickey)
        address == PubkeyToAddress(pub.pub)
        port == nodePort(cid, node)
        id == EncodeToString(address)
        skip == [tab |-> tab, update |-> FALSE, rejected |-> FALSE, known |-> FALSE]
        info == [nil |-> FALSE, ID |-> id, Adrress |-> NewNetAddress(id, node.IP, port),
                 IP |-> node.IP, Port |-> port, Enable |-> FALSE]
    IN  IF pub.err THEN skip
        ELSE IF ~HasAddress(vals, address) THEN [skip EXCEPT !.rejected = TRUE]
        ELSE IF id \notin DOMAIN tab \/ tab[id].nil
        THEN [skip EXCEPT !.tab = [x \in DOMAIN tab \cup {id} |->
                                     IF x = id THEN info ELSE tab[x]],
                          !.update = TRUE]
        ELSE [skip EXCEPT !.known = TRUE]

\* One iteration of putNodes' loop on the table.  rejected: the candidate
\* is well-formed and no validator; known: its entry is already resolved.
putNode(tab, vals, cid, node) ==
    LET pub == UnmarshalPubkey(node.Publickey)
        address == PubkeyToAddress(pub.pub)
        port == nodePort(cid, node)
        id == EncodeToString(address)
        skip == [tab |-> tab, update |-> FALSE, rejected |-> FALSE, known |-> FALSE]
    IN  IF pub.err THEN skip
        ELSE IF ~HasAddress(vals, address) THEN [skip EXCEPT !.rejected = TRUE]
        ELSE IF id \in DOMAIN tab /\ tab[id].nil
        THEN [skip EXCEPT !.tab = [tab EXCEPT ![id] =
                                     [nil |-> FALSE, ID |-> id,
                                      Adrress |-> NewNetAddress(id, node.IP, port),
                                      IP |-> node.IP, Port |-> port, Enable |-> FALSE]],
                          !.update = TRUE]
        ELSE [skip EXCEPT !.known = (id \in DOMAIN tab)]

\* putNodes' loop over the candidates, with the number of candidates it
\* rejected as no validators (rej) and of those already resolved (dup).
RECURSIVE putNodesLoop(_, _, _, _, _)
putNodesLoop(tab, vals, cid, nodes, acc) ==
    IF nodes = <<>> THEN [acc EXCEPT !.tab = tab]
    ELSE LET r == putNode(tab, vals, cid, Head(nodes))
         IN  putNodesLoop(r.tab, vals, cid, Tail(nodes),
                          [acc EXCEPT !.update = @ \/ r.update,
                                      !.rej = IF r.rejected THEN @ + 1 ELSE @,
                                      !.dup = IF r.known THEN @ + 1 ELSE @])

putNodesRange(s, nodes) ==
    putNodesLoop(s.nodeTable, s.saVals, s.cid, nodes,
                 [tab |-> s.nodeTable, update |-> FALSE, rej |-> 0, dup |-> 0])

\* service.putNodes: the loop, then the signal goroutine when an entry was
\* resolved and the local node is a validator with its key bound.
putNodes(s, nodes) ==
    LET r == putNodesRange(s, nodes)
        signal == r.update /\ s.saPriv /\ HasAddress(s.csVals, PubkeyToAddress(SelfPk))
    IN  [s EXCEPT !.nodeTable = r.tab,
                  !.senders = IF signal THEN @ + 1 ELSE @]

\* ConsensusState.UpdateValidatorSet: the validator set is replaced by the
\* descriptor's; the committee halts when the local node is no member.
UpdateValidatorSet(s, members) ==
    LET vals == MakeValidators(members)
    IN  [s |-> [s EXCEPT !.csVals = vals, !.saVals = vals],
         stop |-> ~HasAddress(vals, PubkeyToAddress(SelfPk))]

\* ------------------------------------------------------------------ state
VARIABLES
    services,   \* Node.services: committee id -> service object, or NoObj
    svc,        \* the service objects
    nlock,      \* Node.lock: the thread that holds it, or Free
    th,         \* the agent threads: where each is in its operation
    crashed,    \* the process has panicked
    nOps,       \* operations invoked so far
    ev          \* what the last step returned to its caller, if it returned

vars == <<services, svc, nlock, th, crashed, nOps, ev>>

Idle == [pc |-> "idle", o |-> NoObj]

\* op on committee id returned ret; o is the service the lookup found.  The
\* other fields are set by one operation each: serr is start's own error,
\* now, next and cnt are the sections of a status snapshot, rej and dup are
\* the candidates putNodes rejected and found already resolved.
NoEv ==
    [op |-> "none", id |-> 0, o |-> NoObj, ret |-> "", serr |-> "", now |-> FALSE,
     next |-> FALSE, cnt |-> 0, rej |-> 0, dup |-> 0]
Ret(op, id, o, ret) == [NoEv EXCEPT !.op = op, !.id = id, !.o = o, !.ret = ret]

Init ==
    /\ services = [c \in CIDs |-> NoObj]
    /\ svc = [o \in Objs |-> NoService]
    /\ nlock = Free
    /\ th = [t \in Threads |-> Idle]
    /\ crashed = FALSE
    /\ nOps = 0
    /\ ev = NoEv

\* Idle agent threads are interchangeable, so the next operation is invoked
\* by the first thread that is idle.
ThreadOrder == <<"t1", "t2">>
FirstIdle(t) ==
    \E i \in DOMAIN ThreadOrder :
        /\ ThreadOrder[i] = t
        /\ th[t].pc = "idle"
        /\ \A j \in 1..(i - 1) : th[ThreadOrder[j]].pc # "idle"

\* A thread may invoke an operation.
CanCall(t) == ~crashed /\ FirstIdle(t) /\ nOps < MaxOps /\ nOps' = nOps + 1

\* The lookup n.services[id]: is a service registered under id?
registered(id) == services[id] # NoObj

\* PutCommittee without its check for a registered id.
repeatID_never(id) == FALSE

\* PutCommittee's check that the id is not registered yet.
repeatID(id) == registered(id)

\* Notify(Stop) without its delete.
deleteService_kept(id) == services

\* delete(n.services, id).
deleteService(id) == [services EXCEPT ![id] = NoObj]

\* ----------------------------------------------------------- PutCommittee
\* The service PutCommittee wires for a descriptor: validators, node table.
buildService(cid, members) ==
    LET s == newNodeService(cid, MakeValidators(members))
        nodeinfo == makeCommitteeMembers(members)
    IN  [nil |-> nodeinfo.nil,
         s |-> [setNodes(s, nodeinfo.tab) EXCEPT !.healthMgr = TRUE]]

PutCommittee(t, id, members) ==
    /\ CanCall(t)
    /\ UNCHANGED <<nlock, th, crashed>>
    /\ IF id.nil \/ Len(members) <= 0
       THEN /\ ev' = Ret("PutCommittee", Uint64(id), NoObj, "wrong params")
            /\ UNCHANGED <<services, svc>>
       ELSE /\ nlock = Free
            /\ IF repeatID(Uint64(id))
               THEN /\ ev' = Ret("PutCommittee", Uint64(id), services[Uint64(id)], "repeat ID")
                    /\ UNCHANGED <<services, svc>>
               ELSE /\ \E o \in Objs : ~svc[o].alloc
                    /\ LET o == CHOOSE x \in Objs :
                                  ~svc[x].alloc /\ \A y \in Objs : ~svc[y].alloc => x <= y
                           b == buildService(Uint64(id), members)
                       IN  IF b.nil
                           THEN /\ svc' = [svc EXCEPT ![o] = stopIdle(b.s)]
                                /\ ev' = Ret("PutCommittee", Uint64(id), NoObj,
                                             "make the nil CommitteeMembers")
                                /\ UNCHANGED services
                           ELSE /\ svc' = [svc EXCEPT ![o] = b.s]
                                /\ services' = [services EXCEPT ![Uint64(id)] = o]
                                /\ ev' = Ret("PutCommittee", Uint64(id), o, "nil")

\* --------------------------------------------------------------- PutNodes
\* PutNodes up to the call of putNodes: the parameter check and the lookup,
\* under the registry lock.
PutNodesBegin(t, id, empty) ==
    /\ CanCall(t)
    /\ UNCHANGED <<services, svc, crashed>>
    /\ IF id.nil \/ empty
       THEN /\ ev' = Ret("PutNodes", Uint64(id), NoObj, "wrong params")
            /\ UNCHANGED <<nlock, th>>
       ELSE /\ nlock = Free
            /\ IF ~registered(Uint64(id))
               THEN /\ ev' = Ret("PutNodes", Uint64(id), NoObj, "wrong ID")
                    /\ UNCHANGED <<nlock, th>>
               ELSE /\ nlock' = t
                    /\ th' = [th EXCEPT ![t] = [pc |-> "PutNodes", o |-> services[Uint64(id)]]]
                    /\ ev' = NoEv

\* putNodes once the service lock is free, and PutNodes' return.
PutNodesBody(t, nodes) ==
    /\ ~crashed
    /\ th[t].pc = "PutNodes"
    /\ svc[th[t].o].lock = Free
    /\ svc' = [svc EXCEPT ![th[t].o] = putNodes(@, nodes)]
    /\ nlock' = Free
    /\ th' = [th EXCEPT ![t] = Idle]
    /\ ev' = [Ret("PutNodes", svc[th[t].o].cid, th[t].o, "nil") EXCEPT
                 !.rej = putNodesRange(svc[th[t].o], nodes).rej,
                 !.dup = putNodesRange(svc[th[t].o], nodes).dup]
    /\ UNCHANGED <<services, crashed, nOps>>

\* ----------------------------------------------------------------- Notify
\* Notify that returns success for every id that has no service.
notifyMissing_nil(action) == "nil"

\* What Notify returns for an id that has no service.
notifyMissing(action) == IF action = Start THEN "wrong conmmitt ID" ELSE "nil"

\* Notify(id, Start): server.start's error is not looked at.
NotifyStart(t, id, fail) ==
    /\ CanCall(t)
    /\ nlock = Free
    /\ UNCHANGED <<services, nlock, th, crashed>>
    /\ IF registered(id)
       THEN LET r == start(svc[services[id]], fail)
            IN  /\ svc' = [svc EXCEPT ![services[id]] = r.s]
                /\ ev' = [Ret("NotifyStart", id, services[id], "nil") EXCEPT !.serr = r.err]
       ELSE /\ ev' = Ret("NotifyStart", id, NoObj, notifyMissing(Start))
            /\ UNCHANGED <<svc>>

\* Notify(id, Stop) up to stop's send on updateChan; to its return when the
\* switch is not running or the id has no service.
NotifyStop(t, id) ==
    /\ CanCall(t)
    /\ nlock = Free
    /\ UNCHANGED crashed
    /\ IF registered(id)
       THEN IF IsRunning(svc[services[id]].sw)
            THEN /\ nlock' = t
                 /\ th' = [th EXCEPT ![t] = [pc |-> "Notify.stop", o |-> services[id]]]
                 /\ ev' = NoEv
                 /\ UNCHANGED <<services, svc>>
            ELSE /\ svc' = [svc EXCEPT ![services[id]] = stopIdle(@)]
                 /\ services' = deleteService(id)
                 /\ ev' = Ret("NotifyStop", id, services[id], "nil")
                 /\ UNCHANGED <<nlock, th>>
       ELSE /\ ev' = Ret("NotifyStop", id, NoObj, notifyMissing(Stop))
            /\ UNCHANGED <<services, svc, nlock, th>>

\* Notify(id, Switch) does nothing.
NotifySwitch(t, id) ==
    /\ CanCall(t)
    /\ nlock = Free
    /\ ev' = Ret("NotifySwitch", id, NoObj, "nil")
    /\ UNCHANGED <<services, svc, nlock, th, crashed>>

\* -------------------------------------------------------- UpdateCommittee
\* The signal goroutine UpdateCommittee launches: go func() { updateChan <- true }().
signalUpdate(s) == [s EXCEPT !.senders = @ + 1]

\* UpdateCommittee: the lookup (without the registry lock), the validator
\* set, then stop up to its send when the committee halts and the switch
\* runs; otherwise to the return.
UpdateCommittee(t, id, members) ==
    /\ CanCall(t)
    /\ UNCHANGED <<services, nlock, crashed>>
    /\ IF registered(id)
       THEN LET o == services[id]
                u == UpdateValidatorSet(svc[o], members)
            IN  IF u.stop /\ IsRunning(u.s.sw)
                   THEN /\ svc' = [svc EXCEPT ![o] = u.s]
                        /\ th' = [th EXCEPT ![t] = [pc |-> "UpdateCommittee.stop", o |-> o]]
                        /\ ev' = NoEv
                   ELSE /\ svc' = [svc EXCEPT ![o] =
                                     signalUpdate(IF u.stop THEN stopIdle(u.s) ELSE u.s)]
                        /\ ev' = Ret("UpdateCommittee", id, o, "nil")
                        /\ UNCHANGED th
       ELSE /\ ev' = Ret("UpdateCommittee", id, NoObj, "service not found")
            /\ UNCHANGED <<svc, th>>

\* UpdateCommittee reads n.services without the registry lock.  When the
\* read overlaps the delete of a Notify(Stop) that another thread is in, the
\* two race on the map: the lookup finds the service or misses it (the two
\* orders of UpdateCommittee and StopSendNotify), or the runtime detects the
\* concurrent map read and map write and the process dies (this action).
UpdateCommitteeRace(t, id) ==
    /\ CanCall(t)
    /\ \E u \in Threads \ {t} : th[u].pc = "Notify.stop" /\ svc[th[u].o].cid = id
    /\ crashed' = TRUE
    /\ ev' = NoEv
    /\ UNCHANGED <<services, svc, nlock, th>>

\* ------------------------------------------------------------------- stop
\* service.stop from its send of the terminate value on, and what its
\* caller does next: Notify deletes the id and returns, UpdateCommittee
\* launches its signal goroutine and returns.
StopSendNotify(t) ==
    /\ ~crashed
    /\ th[t].pc = "Notify.stop"
    /\ Len(svc[th[t].o].updateChan) < ChanCap
    /\ svc' = [svc EXCEPT ![th[t].o] =
                 stopRest([@ EXCEPT !.updateChan = Append(@, FALSE)])]
    /\ services' = deleteService(svc[th[t].o].cid)
    /\ nlock' = Free
    /\ th' = [th EXCEPT ![t] = Idle]
    /\ ev' = Ret("NotifyStop", svc[th[t].o].cid, th[t].o, "nil")
    /\ UNCHANGED <<crashed, nOps>>

StopSendUpdate(t) ==
    /\ ~crashed
    /\ th[t].pc = "UpdateCommittee.stop"
    /\ Len(svc[th[t].o].updateChan) < ChanCap
    /\ svc' = [svc EXCEPT ![th[t].o] =
                 signalUpdate(stopRest([@ EXCEPT !.updateChan = Append(@, FALSE)]))]
    /\ th' = [th EXCEPT ![t] = Idle]
    /\ ev' = Ret("UpdateCommittee", svc[th[t].o].cid, th[t].o, "nil")
    /\ UNCHANGED <<services, nlock, crashed, nOps>>

\* ------------------------------------------------------- SetCommitteeStop
SetCommitteeStop(t, id, stop) ==
    /\ CanCall(t)
    /\ nlock = Free
    /\ UNCHANGED <<services, nlock, th, crashed>>
    /\ IF registered(id)
       THEN /\ svc' = [svc EXCEPT ![services[id]].EndHeight = stop]
            /\ ev' = Ret("SetCommitteeStop", id, services[id], "nil")
       ELSE /\ ev' = Ret("SetCommitteeStop", id, NoObj, "wrong conmmitt ID")
            /\ UNCHANGED <<svc>>

\* ----------------------------------------------------- GetCommitteeStatus
\* getCommittee: the service registered under cid, or nil.
getCommittee(cid) == IF cid \in CIDs /\ registered(cid) THEN services[cid] ELSE NoObj

\* GetCommitteeStatus: "committee_now" for id, "committee_next" for id + 1.
GetCommitteeStatus(t, id) ==
    /\ CanCall(t)
    /\ nlock = Free
    /\ LET s == getCommittee(id)
           s1 == getCommittee(id + 1)
       IN  ev' = [Ret("GetCommitteeStatus", id, s, "nil") EXCEPT
                    !.now = (s # NoObj),
                    !.cnt = IF s # NoObj THEN Cardinality(DOMAIN svc[s].nodeTable) ELSE 0,
                    !.next = (s1 # NoObj)]
    /\ UNCHANGED <<services, svc, nlock, th, crashed>>

\* ------------------------------------------------------ connection driver
\* The loop of the goroutine start launches: receive from updateChan.
DriverRecv(o) ==
    /\ ~crashed
    /\ svc[o].drv.pc = "recv"
    /\ svc[o].updateChan # <<>>
    /\ svc' = [svc EXCEPT ![o].updateChan = Tail(@),
                          ![o].drv.pc = IF Head(svc[o].updateChan) THEN "updateNodes"
                                        ELSE "exit"]
    /\ ev' = NoEv
    /\ UNCHANGED <<services, nlock, th, crashed, nOps>>

\* updateNodes takes the service lock and starts to range over the table.
DriverLock(o) ==
    /\ ~crashed
    /\ svc[o].drv.pc = "updateNodes"
    /\ svc[o].lock = Free
    /\ svc' = [svc EXCEPT ![o].lock = "driver",
                          ![o].drv = [pc |-> "range", todo |-> DOMAIN svc[o].nodeTable,
                                      cur |-> <<>>]]
    /\ ev' = NoEv
    /\ UNCHANGED <<services, nlock, th, crashed, nOps>>

\* The condition under which updateNodes dials the entry v.
shouldDial(s, v) ==
    LET dec == DecodeString(v.ID)
    IN  ~v.nil /\ ~v.Enable /\ ~dec.err /\ HasAddress(s.csVals, dec.bytes)

\* One iteration of the range, on any entry not yet visited (a map is
\* ranged over in no fixed order).  The entry's ID is read first: on a nil
\* entry that is a nil dereference and the process panics.
DriverVisit(o, id) ==
    /\ ~crashed
    /\ svc[o].drv.pc = "range"
    /\ id \in svc[o].drv.todo
    /\ ev' = NoEv
    /\ UNCHANGED <<services, nlock, th, nOps>>
    /\ LET v == svc[o].nodeTable[id]
       IN  IF v.nil
           THEN /\ crashed' = TRUE
                /\ UNCHANGED svc
           ELSE /\ UNCHANGED crashed
                /\ IF shouldDial(svc[o], v)
                   THEN svc' = [svc EXCEPT ![o].drv.pc = "dial", ![o].drv.cur = id,
                                           ![o].dialed = @ \cup {id}]
                   ELSE svc' = [svc EXCEPT ![o].drv.todo = @ \ {id}]

\* connTo's DialPeerWithAddress returns: the entry is connected when it
\* succeeded.
DriverDial(o, ok) ==
    /\ ~crashed
    /\ svc[o].drv.pc = "dial"
    /\ svc' = [svc EXCEPT ![o].nodeTable[svc[o].drv.cur].Enable = IF ok THEN TRUE ELSE @,
                          ![o].drv = [pc |-> "range", todo |-> svc[o].drv.todo \ {svc[o].drv.cur},
                                      cur |-> <<>>]]
    /\ ev' = NoEv
    /\ UNCHANGED <<services, nlock, th, crashed, nOps>>

\* The range is over: updateNodes unlocks and the loop receives again.
DriverUnlock(o) ==
    /\ ~crashed
    /\ svc[o].drv.pc = "range"
    /\ svc[o].drv.todo = {}
    /\ svc' = [svc EXCEPT ![o].lock = Free, ![o].drv.pc = "recv"]
    /\ ev' = NoEv
    /\ UNCHANGED <<services, nlock, th, crashed, nOps>>

\* A signal goroutine's send of true on updateChan.
SignalSend(o) ==
    /\ ~crashed
    /\ svc[o].senders > 0
    /\ Len(svc[o].updateChan) < ChanCap
    /\ svc' = [svc EXCEPT ![o].senders = @ - 1, ![o].updateChan = Append(@, TRUE)]
    /\ ev' = NoEv
    /\ UNCHANGED <<services, nlock, th, crashed, nOps>>

\* ---------------------------------------------------------- specification
Agent(t) ==
    \/ \E id \in BigInts, members \in MemberLists : PutCommittee(t, id, members)
    \/ \E id \in BigInts, empty \in BOOLEAN : PutNodesBegin(t, id, empty)
    \/ \E nodes \in Batches : PutNodesBody(t, nodes)
    \/ \E id \in CIDs, fail \in StartFailures : NotifyStart(t, id, fail)
    \/ \E id \in CIDs : NotifyStop(t, id)
    \/ \E id \in CIDs : NotifySwitch(t, id)
    \/ \E id \in CIDs, members \in MemberLists \ {<<>>} : UpdateCommittee(t, id, members)
    \/ \E id \in CIDs : UpdateCommitteeRace(t, id)
    \/ StopSendNotify(t)
    \/ StopSendUpdate(t)
    \/ \E id \in CIDs, stop \in EndHeights : SetCommitteeStop(t, id, stop)
    \/ \E id \in CIDs : GetCommitteeStatus(t, id)

Driver(o) ==
    \/ DriverRecv(o)
    \/ DriverLock(o)
    \/ \E id \in svc[o].drv.todo : DriverVisit(o, id)
    \/ \E ok \in BOOLEAN : DriverDial(o, ok)
    \/ DriverUnlock(o)

Next ==
    \/ \E t \in Threads : Agent(t)
    \/ \E o \in Objs : Driver(o)
    \/ \E o \in Objs : SignalSend(o)

Spec == Init /\ [][Next]_vars

\* The goroutines that exist keep running: the driver loop, the signal
\* goroutines, and an agent thread inside an operation (a dial returns, a
\* send goes through once the channel has room, a free lock is taken).
\* Nothing makes the agent invoke a further operation.
Fairness ==
    /\ \A o \in Objs : WF_vars(Driver(o)) /\ WF_vars(SignalSend(o))
    /\ \A t \in Threads :
         /\ WF_vars(\E nodes \in Batches : PutNodesBody(t, nodes))
         /\ WF_vars(StopSendNotify(t))
         /\ WF_vars(StopSendUpdate(t))

FairSpec == Init /\ [][Next]_vars /\ Fairness

\* ------------------------------------------------------------ node shutdown
\* Node.OnStop takes the registry lock and ranges over the registered
\* services, in no fixed order, calling stop on each.  A service whose switch
\* is stopped has been visited, or a visit changes nothing in it.
OnStopBegin(t) ==
    /\ CanCall(t)
    /\ nlock = Free
    /\ nlock' = t
    /\ th' = [th EXCEPT ![t] = [pc |-> "OnStop", o |-> NoObj]]
    /\ ev' = NoEv
    /\ UNCHANGED <<services, svc, crashed>>

\* The range reaches service o: stop up to its send when the switch runs,
\* the whole of stop when it does not.
OnStopVisit(t, o) ==
    /\ ~crashed
    /\ th[t].pc = "OnStop"
    /\ \E c \in CIDs : services[c] = o
    /\ ~svc[o].sw.stopped
    /\ IF IsRunning(svc[o].sw)
       THEN /\ th' = [th EXCEPT ![t] = [pc |-> "OnStop.stop", o |-> o]]
            /\ UNCHANGED svc
       ELSE /\ svc' = [svc EXCEPT ![o] = stopIdle(@)]
            /\ UNCHANGED th
    /\ ev' = NoEv
    /\ UNCHANGED <<services, nlock, crashed, nOps>>

\* stop's send for the service the range is at, and the rest of stop.
StopSendOnStop(t) ==
    /\ ~crashed
    /\ th[t].pc = "OnStop.stop"
    /\ Len(svc[th[t].o].updateChan) < ChanCap
    /\ svc' = [svc EXCEPT ![th[t].o] =
                 stopRest([@ EXCEPT !.updateChan = Append(@, FALSE)])]
    /\ th' = [th EXCEPT ![t] = [pc |-> "OnStop", o |-> NoObj]]
    /\ ev' = NoEv
    /\ UNCHANGED <<services, nlock, crashed, nOps>>

\* The range is over: OnStop unlocks and returns.
OnStopEnd(t) ==
    /\ ~crashed
    /\ th[t].pc = "OnStop"
    /\ \A c \in CIDs : services[c] # NoObj => svc[services[c]].sw.stopped
    /\ nlock' = Free
    /\ th' = [th EXCEPT ![t] = Idle]
    /\ ev' = Ret("OnStop", 0, NoObj, "nil")
    /\ UNCHANGED <<services, svc, crashed, nOps>>

OnStop(t) ==
    \/ OnStopBegin(t)
    \/ \E o \in Objs : OnStopVisit(t, o)
    \/ StopSendOnStop(t)
    \/ OnStopEnd(t)

\* A node on which committee 7 of the local node and two peers has been put,
\* started and updated with the same members, the update's signal goroutine
\* not yet scheduled: the state after PutCommittee, Notify(Start) and
\* UpdateCommittee.
RunningMembers == <<"pkSelf", "pkA", "pkB">>
RunningService ==
    signalUpdate(
        UpdateValidatorSet(start(buildService(7, RunningMembers).s, "none").s,
                           RunningMembers).s)

\* From that state the agent invokes two further operations.
InitRunning ==
    /\ services = [c \in CIDs |-> IF c = 7 THEN 1 ELSE NoObj]
    /\ svc = [o \in Objs |-> IF o = 1 THEN RunningService ELSE NoService]
    /\ nlock = Free
    /\ th = [t \in Threads |-> Idle]
    /\ crashed = FALSE
    /\ nOps = MaxOps - 2
    /\ ev = NoEv

\* The agent's operations and the shutdown of the node, from that state on.
NextRunning ==
    \/ \E t \in Threads : Agent(t)
    \/ \E o \in Objs : Driver(o)
    \/ \E o \in Objs : SignalSend(o)
    \/ \E t \in Threads : OnStop(t)

RunningSpec ==
    /\ InitRunning
    /\ [][NextRunning]_vars
    /\ Fairness
    /\ \A t \in Threads : /\ WF_vars(\E o \in Objs : OnStopVisit(t, o))
                           /\ WF_vars(StopSendOnStop(t))
                           /\ WF_vars(OnStopEnd(t))

\* ------------------------------------------------------------------ claims
\* The identity of a public key, and whether table tab resolved it.
IdOf(pk) == EncodeToString(PubkeyToAddress(pk))
Resolved(tab, id) == id \in DOMAIN tab /\ ~tab[id].nil

\* C1: a PutCommittee with a non-nil id and a non-empty member list, for an
\* id that is registered, returns the repeat-ID error and leaves the registry
\* and every service object (node tables, validator sets) as they were.
C1_DuplicateRejected ==
    [][ \A c \in CIDs :
          (services[c] # NoObj /\ ev'.op = "PutCommittee" /\ ev'.id = c
             /\ ev'.ret # "wrong params")
          => (ev'.ret = "repeat ID" /\ services' = services /\ svc' = svc) ]_vars

\* C1's case: a second PutCommittee for a registered id was just rejected.
C1_Witness ==
    /\ ev.op = "PutCommittee"
    /\ ev.ret = "repeat ID"
    /\ ev.o # NoObj
    /\ services[ev.id] = ev.o

\* C2: a PutNodes call leaves the node-table entry of every identity that is
\* not in the service's validator set exactly as it was: none is created,
\* none is resolved.
C2_NonValidatorIgnored ==
    [][ \A o \in Objs, pk \in PKs :
          (ev'.op = "PutNodes" /\ ev'.ret = "nil" /\ svc[o].alloc
             /\ ~(\E i \in DOMAIN svc[o].saVals :
                     svc[o].saVals[i].Address = PubkeyToAddress(pk)))
          => /\ (IdOf(pk) \in DOMAIN svc'[o].nodeTable) = (IdOf(pk) \in DOMAIN svc[o].nodeTable)
             /\ IdOf(pk) \in DOMAIN svc[o].nodeTable
                  => svc'[o].nodeTable[IdOf(pk)] = svc[o].nodeTable[IdOf(pk)] ]_vars

\* C2's case: the last PutNodes rejected a candidate as no validator while
\* the table holds an unresolved placeholder for a key outside the set.
C2_Witness ==
    /\ ev.op = "PutNodes"
    /\ ev.rej > 0
    /\ \E pk \in PKs :
         /\ IdOf(pk) \in DOMAIN svc[ev.o].nodeTable
         /\ svc[ev.o].nodeTable[IdOf(pk)].nil
         /\ ~(\E i \in DOMAIN svc[ev.o].saVals :
                 svc[ev.o].saVals[i].Address = PubkeyToAddress(pk))

\* C3: no PutNodes call changes a node-table entry that is resolved: its
\* address, IP, port and connected flag stay.
C3_ResolvedNeverOverwritten ==
    [][ \A o \in Objs, pk \in PKs :
          (ev'.op = "PutNodes" /\ Resolved(svc[o].nodeTable, IdOf(pk)))
          => /\ IdOf(pk) \in DOMAIN svc'[o].nodeTable
             /\ svc'[o].nodeTable[IdOf(pk)] = svc[o].nodeTable[IdOf(pk)] ]_vars

\* C3's case: the last PutNodes named an identity whose entry was resolved
\* already.
C3_Witness ==
    /\ ev.op = "PutNodes"
    /\ ev.dup > 0
    /\ \E pk \in PKs : Resolved(svc[ev.o].nodeTable, IdOf(pk))

\* Whether updateNodes is to dial the entry of id, in the claim's words:
\* resolved, not connected, identity in the current validator set.
C4_Eligible(s, id) ==
    /\ ~s.nodeTable[id].nil
    /\ ~s.nodeTable[id].Enable
    /\ \E pk \in PKs : IdOf(pk) = id /\ \E i \in DOMAIN s.csVals :
                                          s.csVals[i].Address = PubkeyToAddress(pk)

\* C4: a pass of updateNodes over any table, placeholders included, goes on
\* without a panic, starts a dial for an entry only if it is resolved, not
\* connected and in the validator set, and skips no such entry.
C4_UpdateNodesPass ==
    [][ \A o \in Objs :
          svc[o].drv.pc = "range"
          => /\ ~crashed'
             /\ \A id \in svc[o].drv.todo :
                  /\ (svc'[o].drv.pc = "dial" /\ svc'[o].drv.cur = id)
                       => C4_Eligible(svc[o], id)
                  /\ (svc'[o].drv.pc = "range" /\ id \notin svc'[o].drv.todo)
                       => ~C4_Eligible(svc[o], id) ]_vars

\* C5: Notify for an id that has no service returns success for Stop and an
\* error for Start, and changes neither the registry nor any service.
C5_NotifyUnknown ==
    [][ \A c \in CIDs :
          (services[c] = NoObj /\ nOps' = nOps + 1 /\ ev'.id = c)
          => /\ ev'.op = "NotifyStop"
                  => (ev'.ret = "nil" /\ services' = services /\ svc' = svc)
             /\ ev'.op = "NotifyStart"
                  => (ev'.ret # "nil" /\ services' = services /\ svc' = svc) ]_vars

\* C5's case: Notify(Start) for an unregistered id just returned its error
\* while another committee is registered.
C5_Witness ==
    /\ ev.op = "NotifyStart"
    /\ ev.o = NoObj
    /\ ev.ret = "wrong conmmitt ID"
    /\ services[ev.id] = NoObj
    /\ \E c \in CIDs : services[c] # NoObj

\* Whether the validator set the driver reads holds the key pk.
C6_InSet(s, pk) == \E i \in DOMAIN s.csVals : s.csVals[i].Address = PubkeyToAddress(pk)

\* C6: when Notify(Start) has started a service whose table holds an entry
\* that PutNodes resolved for a member of the validator set, the driver
\* eventually attempts a dial to that member, unless the service is stopped
\* or the member leaves the validator set first.
C6_ResolvedEventuallyDialed ==
    \A o \in Objs, pk \in {"pkA", "pkB"} :
        (/\ ev.op = "NotifyStart" /\ ev.serr = "nil" /\ ev.o = o
         /\ Resolved(svc[o].nodeTable, IdOf(pk))
         /\ C6_InSet(svc[o], pk))
        ~> (\/ IdOf(pk) \in svc[o].dialed
            \/ svc[o].sw.stopped
            \/ ~C6_InSet(svc[o], pk))

\* C7: right after a successful PutCommittee the new service's node table
\* holds a nil placeholder for every member except the local node, and none
\* for the local node.
C7_PlaceholdersExceptSelf ==
    (ev.op = "PutCommittee" /\ ev.ret = "nil")
    => /\ DOMAIN svc[ev.o].nodeTable =
            { EncodeToString(svc[ev.o].saVals[i].Address) :
                i \in { j \in DOMAIN svc[ev.o].saVals :
                          svc[ev.o].saVals[j].Address # PubkeyToAddress(SelfPk) } }
       /\ \A id \in DOMAIN svc[ev.o].nodeTable : svc[ev.o].nodeTable[id].nil

\* C8 as claimed: when UpdateCommittee returns for a service whose validator
\* set no longer holds the local node, the service is stopped and its id is
\* out of the registry.
C8_HaltUnregisters ==
    (ev.op = "UpdateCommittee" /\ ev.o # NoObj /\ ~C6_InSet(svc[ev.o], SelfPk))
    => (~IsRunning(svc[ev.o].sw) /\ services[ev.id] = NoObj)

\* C8 as amended: such an UpdateCommittee leaves the switch not running and the
\* registry as it was; an id leaves the registry only in a Notify(Stop); and
\* GetCommitteeStatus has its "committee_now" section exactly when the id is
\* registered.
C8_HaltStopsKeepsRegistered ==
    [][ /\ (ev'.op = "UpdateCommittee" /\ ev'.o # NoObj
              /\ ~C6_InSet(svc'[ev'.o], SelfPk))
           => (~IsRunning(svc'[ev'.o].sw) /\ services' = services)
        /\ \A c \in CIDs :
             (services[c] # NoObj /\ services'[c] = NoObj) => ev'.op = "NotifyStop"
        /\ ev'.op = "GetCommitteeStatus"
             => (ev'.now = (services[ev'.id] # NoObj)) ]_vars

\* C8's case: a status snapshot with "committee_now" of a service that ran
\* and that an UpdateCommittee without the local node stopped.
C8_Witness ==
    /\ ev.op = "GetCommitteeStatus"
    /\ ev.now
    /\ services[ev.id] # NoObj
    /\ svc[services[ev.id]].sw.started
    /\ svc[services[ev.id]].sw.stopped
    /\ ~C6_InSet(svc[services[ev.id]], SelfPk)

\* C9: when Notify(Stop) returns for a registered id the service's switch is
\* not running and the id is out of the registry; and an operation invoked for
\* an id that is out of the registry returns the unknown-committee error
\* (PutNodes, Notify(Start), SetCommitteeStop, UpdateCommittee), while a
\* PutCommittee with valid parameters registers a service.
C9_StopUnregisters ==
    [][ /\ (ev'.op = "NotifyStop" /\ ev'.o # NoObj)
           => (services'[ev'.id] = NoObj /\ ~IsRunning(svc'[ev'.o].sw))
        /\ \A c \in CIDs :
             (services[c] = NoObj /\ nOps' = nOps + 1 /\ ev'.id = c)
             => /\ (ev'.op = "PutNodes" /\ ev'.ret # "wrong params") => ev'.ret = "wrong ID"
                /\ ev'.op = "NotifyStart" => ev'.ret = "wrong conmmitt ID"
                /\ ev'.op = "SetCommitteeStop" => ev'.ret = "wrong conmmitt ID"
                /\ ev'.op = "UpdateCommittee" => ev'.ret = "service not found"
                /\ (ev'.op = "PutCommittee" /\ ev'.ret # "wrong params")
                     => (ev'.ret = "nil" /\ services'[c] # NoObj) ]_vars

\* C9's case: a PutCommittee was just accepted for the id of a service that
\* ran and that Notify(Stop) stopped and took out of the registry.
C9_Witness ==
    /\ ev.op = "PutCommittee"
    /\ ev.ret = "nil"
    /\ \E o \in Objs :
         /\ o # ev.o
         /\ svc[o].alloc
         /\ svc[o].cid = ev.id
         /\ svc[o].sw.started
         /\ svc[o].sw.stopped

\* C10: Notify(Start) for a registered id returns success exactly when the
\* service's start succeeded, and then the driver loop was launched.
C10_StartErrorReturned ==
    (ev.op = "NotifyStart" /\ ev.o # NoObj)
    => /\ (ev.ret = "nil") = (ev.serr = "nil")
       /\ ev.ret = "nil" => svc[ev.o].launched > 0

\* C11: a PutCommittee that returns an error leaves the registry as it was,
\* and a PutCommittee does not succeed for a descriptor whose only member is
\* the local node.
C11_SelfOnlyRejected ==
    [][ ev'.op = "PutCommittee"
        => /\ ev'.ret # "nil" => services' = services
           /\ ev'.ret = "nil"
                => \E i \in DOMAIN svc'[ev'.o].saVals :
                     svc'[ev'.o].saVals[i].Address # PubkeyToAddress(SelfPk) ]_vars

\* C12: the connected flag of an entry turns true only in the return of a
\* dial of that entry, never turns false again, and the driver starts no
\* dial of an entry that is connected.
C12_ConnectedMonotonic ==
    [][ \A o \in Objs :
          /\ (svc[o].alloc /\ svc'[o].nodeTable # svc[o].nodeTable)
             => \A id \in DOMAIN svc[o].nodeTable :
                  LET v == svc[o].nodeTable[id]
                      w == svc'[o].nodeTable[id]
                  IN  /\ id \in DOMAIN svc'[o].nodeTable
                      /\ (~v.nil /\ v.Enable) => (~w.nil /\ w.Enable)
                      /\ (~(~v.nil /\ v.Enable) /\ ~w.nil /\ w.Enable)
                           => (svc[o].drv.pc = "dial" /\ svc[o].drv.cur = id)
          /\ (svc[o].drv.pc # "dial" /\ svc'[o].drv.pc = "dial")
             => ~svc[o].nodeTable[svc'[o].drv.cur].Enable ]_vars

\* C12's case: a pass of updateNodes is about to visit an entry that an
\* earlier pass connected.
C12_Witness ==
    \E o \in Objs : \E id \in DOMAIN svc[o].nodeTable :
        /\ ~svc[o].nodeTable[id].nil
        /\ svc[o].nodeTable[id].Enable
        /\ svc[o].drv.pc = "range"
        /\ id \in svc[o].drv.todo

\* C13: once a service's switch is stopped its driver starts no dial.
C13_NoDialAfterStop ==
    [][ \A o \in Objs :
          (svc[o].drv.pc # "dial" /\ svc'[o].drv.pc = "dial") => ~svc[o].sw.stopped ]_vars

\* C14: the driver is never inside a dial while it owns the service lock.
C14_DialOutsideLock ==
    \A o \in Objs : svc[o].drv.pc = "dial" => svc[o].lock # "driver"

\* C15: an UpdateCommittee is invoked, and so looks its service up in the
\* registry, only while no other thread holds the registry lock, and no two
\* threads are inside stop on the same service at the same time.
C15_RegistryUnderLock ==
    [][ /\ ( /\ nOps' = nOps + 1
             /\ \/ ev'.op = "UpdateCommittee"
                \/ \E t \in Threads : th[t].pc = "idle" /\ th'[t].pc = "UpdateCommittee.stop"
                \/ crashed' # crashed )
           => nlock = Free
        /\ \A t, u \in Threads :
             ( /\ t # u
               /\ th'[t].pc \in {"Notify.stop", "UpdateCommittee.stop"}
               /\ th'[u].pc \in {"Notify.stop", "UpdateCommittee.stop"} )
             => th'[t].o # th'[u].o ]_vars

\* C16: a thread that is inside stop, about to send the terminate value,
\* gets through the send and out of its operation (unless the process dies).
C16_StopTerminates ==
    \A t \in Threads :
        (th[t].pc \in {"Notify.stop", "UpdateCommittee.stop", "OnStop.stop"})
            ~> (th[t].pc \in {"idle", "OnStop"} \/ crashed)

\* C17: no thread owns the registry lock while it waits for a service lock
\* that the driver holds across a dial, or while its send of the terminate
\* value waits on a full signal channel.
C17_NoWaitUnderRegistryLock ==
    \A t \in Threads :
        nlock = t
        => /\ ~( /\ th[t].pc = "PutNodes"
                 /\ svc[th[t].o].lock = "driver"
                 /\ svc[th[t].o].drv.pc = "dial" )
           /\ ~( /\ th[t].pc \in {"Notify.stop", "OnStop.stop"}
                 /\ Len(svc[th[t].o].updateChan) = ChanCap )

\* C18: an UpdateCommittee that returns for a registered committee has
\* either halted it (it went through stop, or the new validator set is
\* without the local node), and then the switch is not running and no signal
\* goroutine was launched; or it has left the switch as it was and launched
\* exactly one signal goroutine.
C18_StopOrSignal ==
    [][ (ev'.op = "UpdateCommittee" /\ ev'.o # NoObj)
        => IF nOps' = nOps \/ ~C6_InSet(svc'[ev'.o], SelfPk)
           THEN /\ ~IsRunning(svc'[ev'.o].sw)
                /\ svc'[ev'.o].senders = svc[ev'.o].senders
           ELSE /\ svc'[ev'.o].sw = svc[ev'.o].sw
                /\ svc'[ev'.o].senders = svc[ev'.o].senders + 1 ]_vars

\* C19: the keys of a service's node table never change once PutCommittee
\* has set them, an entry never goes back to a nil placeholder, and the
\* driver dials only identities that have an entry.
C19_TableKeysFixed ==
    [][ \A o \in Objs :
          /\ (svc[o].alloc /\ svc'[o].nodeTable # svc[o].nodeTable)
             => /\ DOMAIN svc'[o].nodeTable = DOMAIN svc[o].nodeTable
                /\ \A id \in DOMAIN svc[o].nodeTable :
                     svc'[o].nodeTable[id].nil => svc[o].nodeTable[id].nil
          /\ svc'[o].dialed # svc[o].dialed
             => svc'[o].dialed \subseteq DOMAIN svc'[o].nodeTable ]_vars

\* C19's case: UpdateCommittee brought a member without an entry into the
\* validator set, and the driver has since finished a pass in which it
\* dialed, with no signal left to come.
C19_Witness ==
    \E o \in Objs : \E pk \in PKs :
        /\ svc[o].alloc
        /\ C6_InSet(svc[o], pk)
        /\ IdOf(pk) \notin DOMAIN svc[o].nodeTable
        /\ svc[o].drv.pc = "recv"
        /\ svc[o].updateChan = <<>>
        /\ svc[o].senders = 0
        /\ svc[o].dialed # {}

\* C20: a service's driver goroutine is launched at most once, and only on a
\* service that has none.
C20_OneDriver ==
    [][ \A o \in Objs :
          svc'[o].launched # svc[o].launched
          => /\ svc'[o].launched = 1
             /\ svc[o].drv.pc = "none" ]_vars

\* C20's case: a Notify(Start) has just returned from a failed start on a
\* service whose driver is still running.
C20_Witness ==
    /\ ev.op = "NotifyStart"
    /\ ev.o # NoObj
    /\ ev.serr # "nil"
    /\ svc[ev.o].launched = 1
    /\ svc[ev.o].drv.pc \notin {"none", "exit"}

====
